---- MODULE Spec2Model ----
(***************************************************************************)
(* ReadTheLips (src/app.py): one transcription request.                    *)
(*                                                                         *)
(* The model follows one press of "Transcribe File" / "Transcribe          *)
(* Recording": the caller has saved the upload to a temporary file, calls  *)
(* process_and_transcribe on it, deletes the temporary file and handles    *)
(* the result.  The filesystem, the decoder (moviepy) and the remote       *)
(* transcription service are the environment: every call into them either  *)
(* succeeds or raises, and the values they return (file size, duration,    *)
(* text) are drawn from small sets.                                        *)
(*                                                                         *)
(* Numbers.  A file size is kept in units of 1/SizeDen MB and a duration   *)
(* in units of 1/DurDen second, so that non-integer sizes and durations    *)
(* occur; chunk_duration is an integer number of seconds, as in the code   *)
(* (max(10, math.floor(..))).  The arithmetic is exact: the rounding of    *)
(* IEEE doubles in (20 / size) * duration is not modelled.                 *)
(*                                                                         *)
(* Text.  A text is a sequence of one-character strings; a path is a       *)
(* sequence of path pieces, so that  input_path + ".mp3"  and              *)
(* f"{audio_path}_part_{i}.mp3"  are concatenations, as in the code.       *)
(***************************************************************************)
EXTENDS Integers, Sequences, FiniteSets, TLC

\* ---------------------------------------------------------------- bounds
\* Units per megabyte and per second.
SizeDen == 2
DurDen == 2
\* Largest size read by get_file_size_mb is 10 * MaxSizeTens MB.
MaxSizeTens == 6
\* Largest duration read from AudioFileClip, in seconds.
MaxDurSec == 25
\* Step, in duration units, between the durations the decoder may report.
DurStep == 7
\* How many os.remove calls of one finally block may raise (file still locked).
MaxRemoveFailures == 1
\* The chunk plan alone is explored up to this size (MB) and duration (seconds).
MaxPlanSizeMB == 100
MaxPlanDurSec == 60

\* ------------------------------------------------------- program constants
OPENAI_LIMIT_MB == 25
SAFETY_BUFFER_MB == 20
MIN_CHUNK_SECONDS == 10
max_retries == 3

VideoExts == {".mp4", ".mov", ".avi", ".mkv"}

\* The value process_and_transcribe returns from its except branch.
NoneVal == <<"None">>

\* What the remote transcription service may answer for one file.
Texts == {<<"h", "i">>, <<"y", "o">>}

\* ------------------------------------------------------------ pure helpers
Max(a, b) == IF a >= b THEN a ELSE b
Min(a, b) == IF a <= b THEN a ELSE b

\* The sizes os.path.getsize may report (size units), 0 MB included, and the
\* two sizes around the 25 MB limit.
Sizes ==
    {0, 1, OPENAI_LIMIT_MB * SizeDen, OPENAI_LIMIT_MB * SizeDen + 1}
        \cup {10 * m * SizeDen : m \in 1..MaxSizeTens}

\* The durations AudioFileClip may report (duration units).
Durations ==
    {0, 1} \cup {d \in 1..(MaxDurSec * DurDen) : d % DurStep = 0}
        \cup {MaxDurSec * DurDen}

\* Faulty variant of IsSmallFile: the limit itself is excluded.
IsSmallFileStrict(size) == size < OPENAI_LIMIT_MB * SizeDen

\* Every size above the limit and every duration, to the plan's bounds, and
\* the 3000 seconds of the specification's worked example.
PlanSizes == (OPENAI_LIMIT_MB * SizeDen + 1)..(MaxPlanSizeMB * SizeDen)
PlanDurations == (0..(MaxPlanDurSec * DurDen)) \cup {3000 * DurDen}

\* file_size_mb <= OPENAI_LIMIT_MB
IsSmallFile(size) == size <= OPENAI_LIMIT_MB * SizeDen

\* file_ext in ['.mp4', '.mov', '.avi', '.mkv']
IsVideo(path) == path[Len(path)] \in VideoExts

\* Faulty variant of ChunkDuration: the quotient is rounded up.
ChunkDurationCeil(size, dur) ==
    Max(MIN_CHUNK_SECONDS,
        (SAFETY_BUFFER_MB * SizeDen * dur + size * DurDen - 1) \div (size * DurDen))

\* Faulty variant of ChunkDuration: the floor is one second.
ChunkDurationFloorOne(size, dur) ==
    Max(1, (SAFETY_BUFFER_MB * SizeDen * dur) \div (size * DurDen))

\* chunk_duration = max(10, math.floor((SAFETY_BUFFER_MB / file_size_mb) * duration)),
\* in whole seconds.
ChunkDuration(size, dur) ==
    Max(MIN_CHUNK_SECONDS, (SAFETY_BUFFER_MB * SizeDen * dur) \div (size * DurDen))

\* Faulty variant of NumChunks: the quotient is rounded down.
NumChunksFloor(dur, cd) == dur \div (cd * DurDen)

\* Faulty variant of NumChunks: never fewer than one chunk.
NumChunksAtLeastOne(dur, cd) == Max(1, (dur + cd * DurDen - 1) \div (cd * DurDen))

\* Faulty variant of NumChunks: the quotient is rounded down and one is added.
NumChunksPlusOne(dur, cd) == dur \div (cd * DurDen) + 1

\* num_chunks = math.ceil(duration / chunk_duration)
NumChunks(dur, cd) == (dur + cd * DurDen - 1) \div (cd * DurDen)

\* start_time = i * chunk_duration  (duration units)
StartTime(i, cd) == i * cd * DurDen

\* end_time = min((i + 1) * chunk_duration, duration)  (duration units)
EndTime(i, cd, dur) == Min((i + 1) * cd * DurDen, dur)

\* Faulty variant of ExtractedPath: the audio is written over the input.
ExtractedPathSame(input) == input

\* audio_path = input_path + ".mp3"
ExtractedPath(input) == input \o <<".mp3">>

\* chunk_filename = f"{audio_path}_part_{i}.mp3"
ChunkFilename(audio, i) == audio \o <<"_part_", i, ".mp3">>

\* Faulty variants of AppendChunkText: the text is put in front; the space is
\* left out.
AppendChunkTextFront(transcript, text) == text \o <<" ">> \o transcript
AppendChunkTextNoSpace(transcript, text) == transcript \o text

\* full_transcript += chunk_text + " "
AppendChunkText(transcript, text) == transcript \o text \o <<" ">>

\* Faulty variant of ProgressValue: the index itself over the count.
ProgressValueIndex(idx, n) == <<idx, n>>

\* progress_bar.progress((i + 1) / num_chunks): numerator and denominator.
ProgressValue(idx, n) == <<idx + 1, n>>

\* What a call that raised may leave behind: whether the decoder handle had
\* been opened before the fault, and whether the output file was created.
FailureOutcomes ==
    { [opened |-> FALSE, left |-> FALSE],
      [opened |-> TRUE, left |-> FALSE],
      [opened |-> TRUE, left |-> TRUE] }

\* The lengths of audio a file of the given size may hold: an empty file
\* holds none.
MediaDurations(size) == IF size = 0 THEN {0} ELSE Durations

\* bool(raw_transcript): None and the empty string are falsy.
Truthy(t) == t # NoneVal /\ t # <<>>

\* The remote chat completion's answer for a transcript.
Labelled(t) == <<"S", "1", ":", " ">> \o t

\* Faulty variant of DiarizeFallback: the handler returns nothing.
DiarizeFallbackNone(transcript_text) == NoneVal

\* What diarize_with_gpt4 returns from its except clause (line 112).
DiarizeFallback(transcript_text) == transcript_text

\* ------------------------------------------------------------------ state
VARIABLES
    pc,                     \* position in the request
    tab,                    \* "upload" or "dictate"
    input_path,             \* tmp_file_path, the saved upload or recording
    media_duration,         \* length of the working audio's content, in duration
                            \* units; -1 until the file's attributes are fixed
    fs,                     \* the paths that exist on disk
    created,                \* the paths this request's writes have put on disk
    open_handles,           \* decoder handles opened and not closed
    opened,                 \* decoder handles ever opened by the request
    audio_path,
    temp_files_to_cleanup,
    full_transcript,
    file_size_mb,           \* in size units (1/SizeDen MB); -1 before it is read
    duration,               \* audio.duration, in duration units; -1 before
    chunk_duration,         \* seconds
    num_chunks,
    i,                      \* the chunk loop's index
    exc,                    \* the exception in flight, "" when none
    raised,                 \* every exception raised so far, in order
    st_error,               \* the messages shown with st.error
    chunks,                 \* the sub-clips cut so far: index, start, end, file
    events,                 \* writes, transcription calls and removals, in order
    answers,                \* what the transcription service returned, in order
    progress,               \* the values given to the progress bar, <<num, den>>
    cleanup_idx,            \* position of the finally loop in temp_files_to_cleanup
    remove_failures,        \* os.remove calls of the finally block that raised
    raw_transcript,         \* what process_and_transcribe returned
    retry,                  \* the caller's deletion loop index
    transcript_result       \* what the page displays

vars ==
    << pc, tab, input_path, media_duration, fs, created, open_handles, opened,
       audio_path, temp_files_to_cleanup, full_transcript, file_size_mb, duration,
       chunk_duration, num_chunks, i, exc, raised, st_error, chunks, events,
       answers, progress, cleanup_idx, remove_failures, raw_transcript, retry,
       transcript_result >>

\* The variables of the caller (the tab's code after process_and_transcribe).
callerVars == << raw_transcript, retry, transcript_result >>
\* The inputs of the request: the tab, the saved file, and what the working
\* audio holds.
inputVars == << tab, input_path, media_duration >>
\* The chunk plan of lines 161-167.
planVars == << duration, chunk_duration, num_chunks >>

\* The files a request may be started on: an uploaded audio file, an uploaded
\* video, or a recording (always saved with the suffix ".wav").
Inputs ==
    { [tab |-> "upload", path |-> <<"tmp", ".mp3">>],
      [tab |-> "upload", path |-> <<"tmp", ".mp4">>],
      [tab |-> "dictate", path |-> <<"tmp", ".wav">>] }

\* One entry of the log: op is "extract", "extract_retry", "write_chunk",
\* "transcribe", "remove" or "diarize" (file is then the text passed); result
\* is "ok", or how the call raised.
Event(op, file, result) == [op |-> op, file |-> file, result |-> result]

\* How a write that raised is logged: with or without a file left on disk.
RaisedAs(o) == IF o.left THEN "raised_left" ELSE "raised"

\* The state when process_and_transcribe is entered: the caller has written
\* the upload to tmp_file_path (lines 230-232, 278-280).
Init ==
    /\ \E inp \in Inputs : tab = inp.tab /\ input_path = inp.path
    /\ media_duration = -1
    /\ pc = "classify"
    /\ fs = {input_path}
    /\ created = {}
    /\ open_handles = {}
    /\ opened = {}
    /\ audio_path = input_path
    /\ temp_files_to_cleanup = <<>>
    /\ full_transcript = <<>>
    /\ file_size_mb = -1
    /\ duration = -1
    /\ chunk_duration = 0
    /\ num_chunks = 0
    /\ i = 0
    /\ exc = ""
    /\ raised = <<>>
    /\ st_error = <<>>
    /\ chunks = <<>>
    /\ events = <<>>
    /\ answers = <<>>
    /\ progress = <<>>
    /\ cleanup_idx = 1
    /\ remove_failures = 0
    /\ raw_transcript = NoneVal
    /\ retry = 0
    /\ transcript_result = NoneVal

\* Faulty variant of Raise: the failed step is tried again from the loop head.
RaiseRetry(e) ==
    /\ exc' = e
    /\ raised' = Append(raised, e)
    /\ pc' = "loop"

\* An exception e leaves the try body for "except Exception" (line 194).
Raise(e) ==
    /\ exc' = e
    /\ raised' = Append(raised, e)
    /\ pc' = "except"

\* -------------------------------------------- process_and_transcribe: step 1
\* Lines 124-130: the extension decides whether audio is extracted first.
Classify ==
    /\ pc = "classify"
    /\ IF IsVideo(input_path)
         THEN audio_path' = ExtractedPath(input_path) /\ pc' = "extract"
         ELSE audio_path' = input_path /\ pc' = "size"
    /\ UNCHANGED << inputVars, fs, created, open_handles, opened,
                    temp_files_to_cleanup, full_transcript, file_size_mb, planVars, i,
                    exc, raised, st_error, chunks, events, answers, progress, cleanup_idx,
                    remove_failures, callerVars >>

\* Lines 135-137: VideoFileClip, write_audiofile and video.close() all succeed.
ExtractPrimaryOk ==
    /\ pc = "extract"
    /\ fs' = fs \cup {audio_path}
    /\ created' = created \cup {audio_path}
    /\ opened' = opened \cup {"video"}
    /\ events' = Append(events, Event("extract", audio_path, "ok"))
    /\ pc' = "register"
    /\ UNCHANGED << inputVars, answers, open_handles, audio_path, temp_files_to_cleanup,
                    full_transcript, file_size_mb, planVars, i, exc, raised, st_error,
                    chunks, progress, cleanup_idx, remove_failures, callerVars >>

\* What a failed extraction attempt leaves: the handle h stays open when the
\* fault came after VideoFileClip returned (video.close() is skipped), and the
\* output file may have been created.
ExtractFailureEffect(h, op, o) ==
    /\ open_handles' = IF o.opened THEN open_handles \cup {h} ELSE open_handles
    /\ opened' = IF o.opened THEN opened \cup {h} ELSE opened
    /\ fs' = IF o.left THEN fs \cup {audio_path} ELSE fs
    /\ created' = IF o.left THEN created \cup {audio_path} ELSE created
    /\ events' = Append(events, Event(op, audio_path, RaisedAs(o)))

\* Lines 135-138: the primary attempt raises AttributeError.
ExtractPrimaryAttributeError ==
    /\ pc = "extract"
    /\ \E o \in FailureOutcomes : ExtractFailureEffect("video", "extract", o)
    /\ raised' = Append(raised, "AttributeError")
    /\ pc' = "attr_error"
    /\ UNCHANGED << inputVars, answers, audio_path, temp_files_to_cleanup, full_transcript,
                    file_size_mb, planVars, i, exc, st_error, chunks, progress,
                    cleanup_idx, remove_failures, callerVars >>

\* Lines 135-137: the primary attempt raises anything else.
ExtractPrimaryFail ==
    /\ pc = "extract"
    /\ \E o \in FailureOutcomes : ExtractFailureEffect("video", "extract", o)
    /\ Raise("ExtractionError")
    /\ UNCHANGED << inputVars, answers, audio_path, temp_files_to_cleanup, full_transcript,
                    file_size_mb, planVars, i, st_error, chunks, progress, cleanup_idx,
                    remove_failures, callerVars >>

\* Faulty variant of NeedsRetry: the fallback is taken whatever is on disk.
NeedsRetryAlways(path, files) == TRUE

\* Line 142: if not os.path.exists(audio_path)
NeedsRetry(path, files) == path \notin files

\* Lines 138-142: the handler retries only when the file was not created.
HandleAttributeError ==
    /\ pc = "attr_error"
    /\ pc' = IF NeedsRetry(audio_path, fs) THEN "fallback" ELSE "register"
    /\ UNCHANGED << inputVars, fs, created, open_handles, opened, audio_path,
                    temp_files_to_cleanup, full_transcript, file_size_mb, planVars, i,
                    exc, raised, st_error, chunks, events, answers, progress, cleanup_idx,
                    remove_failures, callerVars >>

\* Lines 144-146: the second attempt, with the default logger, succeeds.
ExtractFallbackOk ==
    /\ pc = "fallback"
    /\ fs' = fs \cup {audio_path}
    /\ created' = created \cup {audio_path}
    /\ opened' = opened \cup {"video_retry"}
    /\ events' = Append(events, Event("extract_retry", audio_path, "ok"))
    /\ pc' = "register"
    /\ UNCHANGED << inputVars, answers, open_handles, audio_path, temp_files_to_cleanup,
                    full_transcript, file_size_mb, planVars, i, exc, raised, st_error,
                    chunks, progress, cleanup_idx, remove_failures, callerVars >>

\* Lines 144-146: the second attempt raises; nothing catches it before line 194.
ExtractFallbackFail ==
    /\ pc = "fallback"
    /\ \E o \in FailureOutcomes :
           ExtractFailureEffect("video_retry", "extract_retry", o)
    /\ \E e \in {"AttributeError", "ExtractionError"} : Raise(e)
    /\ UNCHANGED << inputVars, answers, audio_path, temp_files_to_cleanup, full_transcript,
                    file_size_mb, planVars, i, st_error, chunks, progress, cleanup_idx,
                    remove_failures, callerVars >>

\* Line 148
RegisterAudio ==
    /\ pc = "register"
    /\ temp_files_to_cleanup' = Append(temp_files_to_cleanup, audio_path)
    /\ pc' = "size"
    /\ UNCHANGED << inputVars, fs, created, open_handles, opened, audio_path,
                    full_transcript, file_size_mb, planVars, i, exc, raised, st_error,
                    chunks, events, answers, progress, cleanup_idx, remove_failures,
                    callerVars >>

\* -------------------------------------------- process_and_transcribe: step 2
\* Lines 151-159: the size is read and the branch is taken.  The file on disk
\* has a size and a length of audio; only the size is looked at here.
CheckSize ==
    /\ pc = "size"
    /\ audio_path \in fs
    /\ \E s \in Sizes : \E d \in MediaDurations(s) :
        /\ file_size_mb' = s
        /\ media_duration' = d
    /\ pc' = IF IsSmallFile(file_size_mb') THEN "direct" ELSE "open_audio"
    /\ UNCHANGED << tab, input_path, fs, created, open_handles, opened, audio_path,
                    temp_files_to_cleanup, full_transcript, planVars, i, exc, raised,
                    st_error, chunks, events, answers, progress, cleanup_idx,
                    remove_failures, callerVars >>

\* Line 151: os.path.getsize raises.
CheckSizeFail ==
    /\ pc = "size"
    /\ Raise("SizeError")
    /\ UNCHANGED << inputVars, fs, created, open_handles, opened, audio_path,
                    temp_files_to_cleanup, full_transcript, file_size_mb, planVars, i,
                    st_error, chunks, events, answers, progress, cleanup_idx,
                    remove_failures, callerVars >>

\* Line 157: one call on the whole file; its text is the transcript.
TranscribeDirect ==
    /\ pc = "direct"
    /\ \E text \in Texts :
        /\ full_transcript' = text
        /\ answers' = Append(answers, [file |-> audio_path, text |-> text])
    /\ events' = Append(events, Event("transcribe", audio_path, "ok"))
    /\ pc' = "finally"
    /\ UNCHANGED << inputVars, fs, created, open_handles, opened, audio_path,
                    temp_files_to_cleanup, file_size_mb, planVars, i, exc, raised,
                    st_error, chunks, progress, cleanup_idx, remove_failures,
                    callerVars >>

\* Line 157: the call raises (open() or the remote service).
TranscribeDirectFail ==
    /\ pc = "direct"
    /\ events' = Append(events, Event("transcribe", audio_path, "raised"))
    /\ Raise("TranscriptionError")
    /\ UNCHANGED << inputVars, answers, fs, created, open_handles, opened, audio_path,
                    temp_files_to_cleanup, full_transcript, file_size_mb, planVars, i,
                    st_error, chunks, progress, cleanup_idx, remove_failures,
                    callerVars >>

\* -------------------------------------------- process_and_transcribe: step 3
\* Lines 161-169: the duration is read, the plan computed, the bar set to 0.
OpenAudio ==
    /\ pc = "open_audio"
    /\ duration' = media_duration
    /\ chunk_duration' = ChunkDuration(file_size_mb, duration')
    /\ num_chunks' = NumChunks(duration', chunk_duration')
    /\ open_handles' = open_handles \cup {"audio"}
    /\ opened' = opened \cup {"audio"}
    /\ progress' = Append(progress, <<0, 1>>)
    /\ i' = 0
    /\ pc' = "loop"
    /\ UNCHANGED << inputVars, fs, created, audio_path, temp_files_to_cleanup,
                    full_transcript, file_size_mb, exc, raised, st_error, chunks,
                    events, answers, cleanup_idx, remove_failures, callerVars >>

\* Line 161: AudioFileClip raises (unreadable file): no handle is returned.
OpenAudioFail ==
    /\ pc = "open_audio"
    /\ Raise("MediaReadError")
    /\ UNCHANGED << inputVars, fs, created, open_handles, opened, audio_path,
                    temp_files_to_cleanup, full_transcript, file_size_mb, planVars, i,
                    st_error, chunks, events, answers, progress, cleanup_idx,
                    remove_failures, callerVars >>

\* Lines 171-176: the next index's times and file name; the name is registered.
ChunkRegister ==
    /\ pc = "loop"
    /\ i < num_chunks
    /\ temp_files_to_cleanup' =
           Append(temp_files_to_cleanup, ChunkFilename(audio_path, i))
    /\ pc' = "write"
    /\ UNCHANGED << inputVars, fs, created, open_handles, opened, audio_path,
                    full_transcript, file_size_mb, planVars, i, exc, raised, st_error,
                    chunks, events, answers, progress, cleanup_idx, remove_failures,
                    callerVars >>

\* Lines 179-181: the sub-clip is cut, written and closed.
ChunkWrite ==
    /\ pc = "write"
    /\ chunks' = Append(chunks, [index |-> i,
                                 start_time |-> StartTime(i, chunk_duration),
                                 end_time |-> EndTime(i, chunk_duration, duration),
                                 file |-> ChunkFilename(audio_path, i)])
    /\ fs' = fs \cup {ChunkFilename(audio_path, i)}
    /\ created' = created \cup {ChunkFilename(audio_path, i)}
    /\ opened' = opened \cup {"sub_clip"}
    /\ events' = Append(events, Event("write_chunk", ChunkFilename(audio_path, i), "ok"))
    /\ pc' = "transcribe"
    /\ UNCHANGED << inputVars, answers, open_handles, audio_path,
                    temp_files_to_cleanup, full_transcript, file_size_mb, planVars, i,
                    exc, raised, st_error, progress, cleanup_idx, remove_failures,
                    callerVars >>

\* Lines 179-180: subclip or write_audiofile raises; sub_clip.close() is skipped.
ChunkWriteFail ==
    /\ pc = "write"
    /\ \E o \in FailureOutcomes :
        /\ open_handles' = IF o.opened THEN open_handles \cup {"sub_clip"}
                                       ELSE open_handles
        /\ opened' = IF o.opened THEN opened \cup {"sub_clip"} ELSE opened
        /\ fs' = IF o.left THEN fs \cup {ChunkFilename(audio_path, i)} ELSE fs
        /\ created' = IF o.left THEN created \cup {ChunkFilename(audio_path, i)}
                                ELSE created
        /\ events' = Append(events, Event("write_chunk", ChunkFilename(audio_path, i),
                                          RaisedAs(o)))
    /\ Raise("ExtractionError")
    /\ UNCHANGED << inputVars, answers, audio_path, temp_files_to_cleanup, full_transcript,
                    file_size_mb, planVars, i, st_error, chunks, progress, cleanup_idx,
                    remove_failures, callerVars >>

\* Lines 185-189: the chunk is transcribed (the answer is one of T), its text
\* appended, the bar moved.
ChunkTranscribeWith(T) ==
    /\ pc = "transcribe"
    /\ \E text \in T :
        /\ full_transcript' = AppendChunkText(full_transcript, text)
        /\ answers' = Append(answers, [file |-> ChunkFilename(audio_path, i),
                                       text |-> text])
    /\ events' = Append(events, Event("transcribe", ChunkFilename(audio_path, i), "ok"))
    /\ progress' = Append(progress, ProgressValue(i, num_chunks))
    /\ i' = i + 1
    /\ pc' = "loop"
    /\ UNCHANGED << inputVars, fs, created, open_handles, opened, audio_path,
                    temp_files_to_cleanup, file_size_mb, planVars, exc, raised,
                    st_error, chunks, cleanup_idx, remove_failures, callerVars >>

ChunkTranscribe == ChunkTranscribeWith(Texts)

\* Line 185: the call raises.
ChunkTranscribeFail ==
    /\ pc = "transcribe"
    /\ events' = Append(events, Event("transcribe", ChunkFilename(audio_path, i),
                                      "raised"))
    /\ Raise("TranscriptionError")
    /\ UNCHANGED << inputVars, answers, fs, created, open_handles, opened, audio_path,
                    temp_files_to_cleanup, full_transcript, file_size_mb, planVars, i,
                    st_error, chunks, progress, cleanup_idx, remove_failures,
                    callerVars >>

\* Lines 191-192: after the last chunk the clip is closed and the bar removed.
CloseAudio ==
    /\ pc = "loop"
    /\ i >= num_chunks
    /\ open_handles' = open_handles \ {"audio"}
    /\ pc' = "finally"
    /\ UNCHANGED << inputVars, fs, created, opened, audio_path,
                    temp_files_to_cleanup, full_transcript, file_size_mb, planVars, i,
                    exc, raised, st_error, chunks, events, answers, progress, cleanup_idx,
                    remove_failures, callerVars >>

\* -------------------------------------- process_and_transcribe: except/finally
\* Lines 194-196: the message is shown; the function will return None.
HandleException ==
    /\ pc = "except"
    /\ st_error' = Append(st_error, exc)
    /\ pc' = "finally"
    /\ UNCHANGED << inputVars, fs, created, open_handles, opened, audio_path,
                    temp_files_to_cleanup, full_transcript, file_size_mb, planVars, i,
                    exc, raised, chunks, events, answers, progress, cleanup_idx,
                    remove_failures, callerVars >>

\* The file the finally loop is at.
CleanupFile == temp_files_to_cleanup[cleanup_idx]

\* Lines 199-200: a registered path that does not exist is passed over.
CleanupSkip ==
    /\ pc = "finally"
    /\ cleanup_idx <= Len(temp_files_to_cleanup)
    /\ CleanupFile \notin fs
    /\ cleanup_idx' = cleanup_idx + 1
    /\ UNCHANGED << inputVars, pc, fs, created, open_handles, opened, audio_path,
                    temp_files_to_cleanup, full_transcript, file_size_mb, planVars, i,
                    exc, raised, st_error, chunks, events, answers, progress,
                    remove_failures, callerVars >>

\* Lines 200-202: os.remove succeeds.
CleanupRemove ==
    /\ pc = "finally"
    /\ cleanup_idx <= Len(temp_files_to_cleanup)
    /\ CleanupFile \in fs
    /\ fs' = fs \ {CleanupFile}
    /\ events' = Append(events, Event("remove", CleanupFile, "ok"))
    /\ cleanup_idx' = cleanup_idx + 1
    /\ UNCHANGED << inputVars, pc, created, answers, open_handles, opened, audio_path,
                    temp_files_to_cleanup, full_transcript, file_size_mb, planVars, i,
                    exc, raised, st_error, chunks, progress, remove_failures,
                    callerVars >>

\* Lines 201-204: os.remove raises (the file is still locked); "except: pass".
CleanupRemoveFail ==
    /\ pc = "finally"
    /\ cleanup_idx <= Len(temp_files_to_cleanup)
    /\ CleanupFile \in fs
    /\ remove_failures < MaxRemoveFailures
    /\ remove_failures' = remove_failures + 1
    /\ events' = Append(events, Event("remove", CleanupFile, "locked"))
    /\ cleanup_idx' = cleanup_idx + 1
    /\ UNCHANGED << inputVars, pc, answers, fs, created, open_handles, opened, audio_path,
                    temp_files_to_cleanup, full_transcript, file_size_mb, planVars, i,
                    exc, raised, st_error, chunks, progress, callerVars >>

\* Faulty variant of ReturnValue: the transcript built so far is returned even
\* after an exception.
ReturnValueAlways == full_transcript

\* Lines 196, 206: None after an exception, the transcript otherwise.
ReturnValue == IF exc # "" THEN NoneVal ELSE full_transcript

\* The finally loop is over and the function returns to the tab's code.
Return ==
    /\ pc = "finally"
    /\ cleanup_idx > Len(temp_files_to_cleanup)
    /\ raw_transcript' = ReturnValue
    /\ pc' = IF tab = "upload" THEN "caller_close" ELSE "caller_delete"
    /\ UNCHANGED << inputVars, fs, created, open_handles, opened, audio_path,
                    temp_files_to_cleanup, full_transcript, file_size_mb, planVars, i,
                    exc, raised, st_error, chunks, events, answers, progress, cleanup_idx,
                    remove_failures, retry, transcript_result >>

\* ------------------------------------------------------------- the caller
runVars ==
    << audio_path, temp_files_to_cleanup, full_transcript, file_size_mb, duration,
       chunk_duration, num_chunks, i, exc, raised, chunks, progress, cleanup_idx >>

\* Lines 237-241 (upload tab): "video" is a local of process_and_transcribe,
\* not a name of the page's scope, so the test is false and nothing is closed.
CallerCloseHandles ==
    /\ pc = "caller_close"
    /\ pc' = "caller_delete"
    /\ UNCHANGED << inputVars, runVars, callerVars, fs, created, open_handles,
                    opened, st_error, events, answers, remove_failures >>

\* Lines 246-249, 288-291: os.remove succeeds, break.
CallerRemove ==
    /\ pc = "caller_delete"
    /\ input_path \in fs
    /\ retry < max_retries
    /\ fs' = fs \ {input_path}
    /\ events' = Append(events, Event("remove", input_path, "ok"))
    /\ pc' = "caller_result"
    /\ UNCHANGED << inputVars, answers, runVars, callerVars, created, open_handles, opened,
                    st_error, remove_failures >>

\* Lines 250-251, 292-293: PermissionError, sleep one second, next attempt.
CallerRemoveLocked ==
    /\ pc = "caller_delete"
    /\ input_path \in fs
    /\ retry < max_retries
    /\ events' = Append(events, Event("remove", input_path, "locked"))
    /\ retry' = retry + 1
    /\ UNCHANGED << inputVars, answers, runVars, pc, fs, created, open_handles, opened,
                    st_error, remove_failures, raw_transcript, transcript_result >>

\* Lines 252-254, 294-296: any other exception is printed, break.
CallerRemoveError ==
    /\ pc = "caller_delete"
    /\ input_path \in fs
    /\ retry < max_retries
    /\ events' = Append(events, Event("remove", input_path, "error"))
    /\ pc' = "caller_result"
    /\ UNCHANGED << inputVars, answers, runVars, callerVars, fs, created, open_handles,
                    opened, st_error, remove_failures >>

\* Lines 244-246, 286-288: the loop is not entered when the saved file does
\* not exist, and is left when range(max_retries) is exhausted.
CallerDeleteEnd ==
    /\ pc = "caller_delete"
    /\ ~(input_path \in fs /\ retry < max_retries)
    /\ pc' = "caller_result"
    /\ UNCHANGED << inputVars, runVars, callerVars, fs, created, open_handles,
                    opened, st_error, events, answers, remove_failures >>

\* Lines 256, 298: a falsy result (None or "") shows nothing.
CallerNoResult ==
    /\ pc = "caller_result"
    /\ ~Truthy(raw_transcript)
    /\ pc' = "done"
    /\ UNCHANGED << inputVars, runVars, callerVars, fs, created, open_handles,
                    opened, st_error, events, answers, remove_failures >>

\* Lines 260-261, 302-303: the checkbox enable_diarization (line 77) is off.
CallerShowRaw ==
    /\ pc = "caller_result"
    /\ Truthy(raw_transcript)
    /\ transcript_result' = raw_transcript
    /\ pc' = "done"
    /\ UNCHANGED << inputVars, runVars, fs, created, open_handles, opened,
                    st_error, events, answers, remove_failures, raw_transcript, retry >>

\* Lines 257-259, 100-109: the checkbox is on; diarize_with_gpt4 returns the
\* remote answer.
DiarizeOk ==
    /\ pc = "caller_result"
    /\ Truthy(raw_transcript)
    /\ transcript_result' = Labelled(raw_transcript)
    /\ events' = Append(events, Event("diarize", raw_transcript, "ok"))
    /\ pc' = "done"
    /\ UNCHANGED << inputVars, runVars, fs, created, open_handles, opened,
                    st_error, answers, remove_failures, raw_transcript, retry >>

\* Lines 257-259, 110-112: the checkbox is on; the remote call raises and the
\* text is returned as given.
DiarizeFail ==
    /\ pc = "caller_result"
    /\ Truthy(raw_transcript)
    /\ st_error' = Append(st_error, "DiarizationError")
    /\ transcript_result' = DiarizeFallback(raw_transcript)
    /\ events' = Append(events, Event("diarize", raw_transcript, "raised"))
    /\ pc' = "done"
    /\ UNCHANGED << inputVars, runVars, fs, created, open_handles, opened, answers,
                    remove_failures, raw_transcript, retry >>

\* ------------------------------------------------------------ specification
Next ==
    \/ Classify
    \/ ExtractPrimaryOk
    \/ ExtractPrimaryAttributeError
    \/ ExtractPrimaryFail
    \/ HandleAttributeError
    \/ ExtractFallbackOk
    \/ ExtractFallbackFail
    \/ RegisterAudio
    \/ CheckSize
    \/ CheckSizeFail
    \/ TranscribeDirect
    \/ TranscribeDirectFail
    \/ OpenAudio
    \/ OpenAudioFail
    \/ ChunkRegister
    \/ ChunkWrite
    \/ ChunkWriteFail
    \/ ChunkTranscribe
    \/ ChunkTranscribeFail
    \/ CloseAudio
    \/ HandleException
    \/ CleanupSkip
    \/ CleanupRemove
    \/ CleanupRemoveFail
    \/ Return
    \/ CallerCloseHandles
    \/ CallerRemove
    \/ CallerRemoveLocked
    \/ CallerRemoveError
    \/ CallerDeleteEnd
    \/ CallerNoResult
    \/ CallerShowRaw
    \/ DiarizeOk
    \/ DiarizeFail

Spec == Init /\ [][Next]_vars

\* ------------------------------------------------------- the chunk plan alone
\* The chunked path of lines 161-192 without faults, over every size and
\* duration up to the plan's bounds.  It starts where an uploaded audio file
\* has been classified and its size, above the limit, has been read.
PlanInit ==
    /\ tab = "upload"
    /\ input_path = <<"tmp", ".mp3">>
    /\ pc = "open_audio"
    /\ file_size_mb \in PlanSizes
    /\ media_duration \in PlanDurations
    /\ fs = {input_path}
    /\ created = {}
    /\ open_handles = {}
    /\ opened = {}
    /\ audio_path = input_path
    /\ temp_files_to_cleanup = <<>>
    /\ full_transcript = <<>>
    /\ duration = -1
    /\ chunk_duration = 0
    /\ num_chunks = 0
    /\ i = 0
    /\ exc = ""
    /\ raised = <<>>
    /\ st_error = <<>>
    /\ chunks = <<>>
    /\ events = <<>>
    /\ answers = <<>>
    /\ progress = <<>>
    /\ cleanup_idx = 1
    /\ remove_failures = 0
    /\ raw_transcript = NoneVal
    /\ retry = 0
    /\ transcript_result = NoneVal

PlanChunkTranscribe == ChunkTranscribeWith({<<"h", "i">>})

PlanNext ==
    \/ OpenAudio
    \/ ChunkRegister
    \/ ChunkWrite
    \/ PlanChunkTranscribe
    \/ CloseAudio

PlanSpec == PlanInit /\ [][PlanNext]_vars

\* ================================================================ claims
\* process_and_transcribe has returned to the tab's code.
Returned == pc \in {"caller_close", "caller_delete", "caller_result", "done"}

\* The positions of the log with the given op.
EventsOf(op) == {k \in DOMAIN events : events[k].op = op}

\* An os.remove of f was attempted and raised.
RemoveFailedFor(f) ==
    \E k \in EventsOf("remove") : events[k].file = f /\ events[k].result # "ok"

\* The chunk index written into a chunk file's name.
IndexOf(file) == file[Len(file) - 1]

\* The characters of a text other than spaces.
Letters(t) == SelectSeq(t, LAMBDA c : c # " ")

\* The texts of a sequence of answers, one after the other.
RECURSIVE ConcatTexts(_)
ConcatTexts(as) ==
    IF as = <<>> THEN <<>> ELSE Head(as).text \o ConcatTexts(Tail(as))

\* The texts of a sequence of answers with one space between neighbours.
RECURSIVE JoinTexts(_)
JoinTexts(as) ==
    IF as = <<>> THEN <<>>
    ELSE IF Len(as) = 1 THEN Head(as).text
    ELSE Head(as).text \o <<" ">> \o JoinTexts(Tail(as))

\* The chunk loop ran to its end (no exception) on a file with duration > 0.
LoopDone ==
    /\ duration > 0
    /\ exc = ""
    /\ pc \notin {"loop", "write", "transcribe"}

\* ---------------------------------------------------------------------- C1
\* C1 (as claimed): once process_and_transcribe has returned, on any path,
\* every file the run created (the extracted audio, every chunk) is gone from
\* the filesystem, except files whose deletion was attempted and failed.
C1_ArtifactsRemoved ==
    Returned => \A f \in created : f \notin fs \/ RemoveFailedFor(f)

\* ---------------------------------------------------------------------- C2
\* C2: on the chunked path with duration > 0 the ranges cut are contiguous and
\* non-overlapping (each starts where the previous one ended, the first at 0,
\* none is empty or ends past the duration), and when the loop has run to its
\* end the last range ends exactly at the duration: the union is [0, duration).
C2_ChunkCoverage ==
    duration > 0 =>
        /\ \A k \in DOMAIN chunks :
            /\ chunks[k].index = k - 1
            /\ chunks[k].start_time = IF k = 1 THEN 0 ELSE chunks[k - 1].end_time
            /\ chunks[k].start_time < chunks[k].end_time
            /\ chunks[k].end_time <= duration
        /\ LoopDone =>
            /\ Len(chunks) >= 1
            /\ chunks[Len(chunks)].end_time = duration

\* A finished loop of at least two chunks whose last chunk is cut short by the
\* duration.
C2_Witness ==
    /\ LoopDone
    /\ Len(chunks) >= 2
    /\ chunks[Len(chunks)].end_time - chunks[Len(chunks)].start_time
           < chunks[1].end_time - chunks[1].start_time

\* ---------------------------------------------------------------------- C3
\* C3: a chunk with index j > 0 is cut only after chunk j-1 has been written
\* and then transcribed, both successfully; the answers arrive in chunk-index
\* order and the transcript holds their texts in that order.
C3_ChunksInOrder ==
    /\ \A p \in EventsOf("write_chunk") :
        IndexOf(events[p].file) > 0 =>
            \E q \in EventsOf("write_chunk"), r \in EventsOf("transcribe") :
                /\ q < r /\ r < p
                /\ events[q].result = "ok" /\ events[r].result = "ok"
                /\ events[r].file = events[q].file
                /\ IndexOf(events[q].file) = IndexOf(events[p].file) - 1
                /\ SubSeq(events[q].file, 1, Len(audio_path)) = audio_path
    /\ duration >= 0 =>
        /\ \A k \in DOMAIN answers : IndexOf(answers[k].file) = k - 1
        /\ Letters(full_transcript) = ConcatTexts(answers)

\* A returned run of at least two chunks whose first two texts differ.
C3_Witness ==
    /\ Returned
    /\ exc = ""
    /\ Len(answers) >= 2
    /\ answers[1].text # answers[2].text

\* ---------------------------------------------------------------------- C4
\* C4: a run that read a size <= 25 MB made exactly one transcription call, on
\* the working audio itself, opened no AudioFileClip, read no duration, cut
\* and created no chunk, and when the call succeeded returned exactly its text.
C4_SmallFileBypass ==
    (Returned /\ file_size_mb >= 0 /\ file_size_mb <= 25 * SizeDen) =>
        /\ Cardinality(EventsOf("transcribe")) = 1
        /\ \A k \in EventsOf("transcribe") : events[k].file = audio_path
        /\ "audio" \notin opened
        /\ duration = -1
        /\ chunks = <<>>
        /\ EventsOf("write_chunk") = {}
        /\ created \subseteq {input_path \o <<".mp3">>}
        /\ exc = "" => Len(answers) = 1 /\ raw_transcript = answers[1].text

\* A successful run on a file of exactly 25 MB.
C4_Witness ==
    /\ Returned
    /\ file_size_mb = 25 * SizeDen
    /\ exc = ""
    /\ Len(answers) = 1

\* ---------------------------------------------------------------------- C5
\* C5 (as claimed): if any error was raised during the run, the run returned
\* None, showed an error that was raised, and its cleanup loop ran to the end.
C5_AnyErrorAborts ==
    (Returned /\ raised # <<>>) =>
        /\ raw_transcript = NoneVal
        /\ st_error # <<>>
        /\ \E k \in DOMAIN raised : st_error[1] = raised[k]
        /\ cleanup_idx > Len(temp_files_to_cleanup)

\* The primary extraction attempt raised AttributeError (the first error a run
\* can raise; the handler of line 138 absorbs it).
PrimaryAttributeError == raised # <<>> /\ raised[1] = "AttributeError"

\* The errors raised other than the absorbed one.
Aborting == IF PrimaryAttributeError THEN Tail(raised) ELSE raised

\* C5 (amended): an error raised by size or duration probing, chunk writing or
\* transcription, or by extraction other than an AttributeError of the primary
\* attempt, ends the try body at once (no later step of it runs, no second
\* error is raised); the finally loop still visits every registered path, the
\* error is the one message shown, None is returned, and nothing is displayed:
\* the texts already transcribed never reach the caller.
C5_AbortingErrors ==
    Aborting # <<>> =>
        /\ Len(Aborting) = 1
        /\ exc = Aborting[1]
        /\ pc = "except" \/ pc = "finally" \/ Returned
        /\ pc # "except" => st_error = <<exc>>
        /\ transcript_result = NoneVal
        /\ Returned =>
            /\ raw_transcript = NoneVal
            /\ cleanup_idx > Len(temp_files_to_cleanup)
            /\ \A k \in DOMAIN temp_files_to_cleanup :
                   \/ temp_files_to_cleanup[k] \notin fs
                   \/ RemoveFailedFor(temp_files_to_cleanup[k])

\* A request that ended after chunk 0 was transcribed and a later step raised.
C5_Witness ==
    /\ pc = "done"
    /\ Aborting # <<>>
    /\ full_transcript # <<>>
    /\ temp_files_to_cleanup # <<>>

\* ---------------------------------------------------------------------- C6
\* C6 (as claimed): a chunked run that succeeds returns the chunk texts in
\* index order with a single space between neighbours and nothing else before
\* or after.
C6_JoinedBySingleSpace ==
    (Returned /\ exc = "" /\ duration >= 0) => raw_transcript = JoinTexts(answers)

\* C6 (amended): a chunked run that succeeds returns the chunk texts in index
\* order, each followed by a single space: the texts joined by single spaces,
\* plus one trailing space after the last text (the empty string when there is
\* no chunk).
C6_EachTextThenSpace ==
    (Returned /\ exc = "" /\ duration >= 0) =>
        /\ Len(answers) = num_chunks
        /\ \A k \in DOMAIN answers : IndexOf(answers[k].file) = k - 1
        /\ raw_transcript =
               IF answers = <<>> THEN <<>> ELSE JoinTexts(answers) \o <<" ">>

\* A successful chunked run of at least two chunks.
C6_Witness ==
    /\ Returned
    /\ exc = ""
    /\ duration > 0
    /\ Len(answers) >= 2
    /\ raw_transcript # NoneVal

\* ---------------------------------------------------------------------- C7
\* The size of chunk c is at most mb megabytes under uniform bitrate:
\* (file_size_mb / SizeDen) * (length / duration) <= mb.
ChunkFits(c, mb) ==
    file_size_mb * (c.end_time - c.start_time) <= mb * SizeDen * duration

\* C7 (as claimed): under uniform bitrate every chunk cut from a file larger
\* than 25 MB is at most 25 MB, whatever the size and the duration.
C7_ChunksFitLimit == \A k \in DOMAIN chunks : ChunkFits(chunks[k], 25)

\* floor((20 / size) * duration) >= 10: the 10-second floor is not what sets
\* chunk_duration.
FloorIdle == (20 * SizeDen * duration) \div (file_size_mb * DurDen) >= 10

\* C7 (amended): under uniform bitrate every chunk is at most 20 MB, hence
\* within the 25 MB limit, whenever floor((20 / size) * duration) >= 10; when
\* the 10-second floor sets chunk_duration nothing bounds the chunk's size.
C7_ChunksFitWhenFloorIdle ==
    \A k \in DOMAIN chunks : FloorIdle => ChunkFits(chunks[k], 20)

\* A chunk cut with the floor idle was sent to the service.
C7_Witness ==
    /\ chunks # <<>>
    /\ FloorIdle
    /\ \E k \in EventsOf("transcribe") :
        events[k].result = "ok" /\ events[k].file = chunks[1].file

\* ---------------------------------------------------------------------- C8
\* C8 (as claimed): when the run has returned, every VideoFileClip and the
\* AudioFileClip it opened has been closed.
C8_HandlesClosed ==
    Returned => open_handles \cap {"video", "video_retry", "audio"} = {}

\* ---------------------------------------------------------------------- C9
\* The removals of the file of log entry k up to and including k.
AttemptNo(k) ==
    Cardinality({j \in EventsOf("remove") : j <= k /\ events[j].file = events[k].file})

\* The deletion of f is over: the finally loop for a registered path, the
\* caller's loop for the saved upload.
DeletionOver(f) ==
    IF f = input_path THEN pc \in {"caller_result", "done"} ELSE Returned

\* C9 (as claimed): every os.remove that failed on a locked file, of a
\* registered artifact or of the caller's saved file, was tried again, unless
\* it was already the third attempt on that file.
C9_LockedDeletionRetried ==
    \A k \in EventsOf("remove") :
        (events[k].result = "locked" /\ DeletionOver(events[k].file)) =>
            \/ AttemptNo(k) >= 3
            \/ \E j \in EventsOf("remove") : j > k /\ events[j].file = events[k].file

\* --------------------------------------------------------------------- C10
\* The extraction is behind the run.
PastExtraction == pc \notin {"classify", "extract", "attr_error", "fallback"}

\* C10 (as claimed): after an AttributeError of the primary write the fallback
\* write was attempted exactly once; if it failed too, the error is in flight
\* or shown and neither the size check nor a transcription was reached.
C10_RetriedOnce ==
    (PrimaryAttributeError /\ PastExtraction) =>
        /\ Cardinality(EventsOf("extract_retry")) = 1
        /\ \A k \in EventsOf("extract_retry") :
            events[k].result # "ok" =>
                exc # "" /\ file_size_mb = -1 /\ EventsOf("transcribe") = {}

\* The primary attempt raised and left a file at audio_path.
PrimaryLeftFile ==
    \E k \in EventsOf("extract") : events[k].result = "raised_left"

\* C10 (amended): after an AttributeError of the primary write the fallback
\* write is attempted exactly once when no file exists at the audio path, and
\* not at all when the failed write left one: the run then goes on to the size
\* check with that file.  A fallback that fails too ends the run: no size check,
\* no transcription, the error shown and None returned.  No other outcome of
\* the primary attempt leads to a fallback write.
C10_RetriedWhenNoFile ==
    /\ ~PrimaryAttributeError => EventsOf("extract_retry") = {}
    /\ (PrimaryAttributeError /\ PastExtraction) =>
        /\ Cardinality(EventsOf("extract_retry")) = IF PrimaryLeftFile THEN 0 ELSE 1
        /\ \A k \in EventsOf("extract_retry") :
            events[k].result # "ok" =>
                /\ exc # ""
                /\ file_size_mb = -1
                /\ EventsOf("transcribe") = {}
                /\ Returned => raw_transcript = NoneVal /\ st_error = <<exc>>

\* A run that finished on the audio written by the fallback attempt.
C10_Witness ==
    /\ Returned
    /\ PrimaryAttributeError
    /\ \E k \in EventsOf("extract_retry") : events[k].result = "ok"
    /\ exc = ""
    /\ raw_transcript # NoneVal

\* --------------------------------------------------------------------- C11
\* C11 (as claimed): a run on a working audio whose duration is 0 makes no
\* transcription call, creates no chunk, raises no error and returns the
\* empty string.
C11_ZeroDurationNoCalls ==
    (Returned /\ media_duration = 0) =>
        /\ EventsOf("transcribe") = {}
        /\ chunks = <<>>
        /\ EventsOf("write_chunk") = {}
        /\ exc = ""
        /\ raw_transcript = <<>>

\* C11 (amended): when the working audio is larger than 25 MB and
\* AudioFileClip has reported a duration of 0, the plan has no chunk, no chunk
\* is registered or written, no transcription call is made, nothing is raised
\* from there on, and the run returns the empty string.
C11_ZeroDurationReadNoCalls ==
    duration = 0 =>
        /\ file_size_mb > 25 * SizeDen
        /\ num_chunks = 0
        /\ chunks = <<>>
        /\ EventsOf("write_chunk") = {}
        /\ EventsOf("transcribe") = {}
        /\ answers = <<>>
        /\ \A k \in DOMAIN temp_files_to_cleanup :
               temp_files_to_cleanup[k] = ExtractedPath(input_path)
        /\ exc = ""
        /\ Aborting = <<>>
        /\ Returned => raw_transcript = <<>>

\* A run on a large file of duration 0 has returned.
C11_Witness ==
    /\ Returned
    /\ duration = 0
    /\ file_size_mb > 25 * SizeDen
    /\ raw_transcript = <<>>

\* --------------------------------------------------------------------- C12
\* C12 (as claimed): a working audio of size 0 MB is rejected with a planning
\* error: the run makes no transcription call for it, ends with an error and
\* returns no transcript.
C12_ZeroSizeRejected ==
    (Returned /\ file_size_mb = 0) =>
        /\ EventsOf("transcribe") = {}
        /\ exc # ""
        /\ raw_transcript = NoneVal

\* --------------------------------------------------------------------- C13
\* C13: diarize_with_gpt4 is called at most once, on a non-empty transcript;
\* a failure of its remote call is shown, is not raised to the caller, and the
\* text displayed is then exactly the raw transcript it was given; when the
\* remote call succeeds the text displayed is the remote answer.
C13_DiarizeFailsOpen ==
    /\ Cardinality(EventsOf("diarize")) <= 1
    /\ \A k \in EventsOf("diarize") :
        /\ pc = "done"
        /\ events[k].file = raw_transcript
        /\ raw_transcript # NoneVal /\ raw_transcript # <<>>
        /\ \A j \in DOMAIN raised : raised[j] # "DiarizationError"
        /\ events[k].result = "raised" =>
            /\ transcript_result = raw_transcript
            /\ st_error # <<>>
            /\ st_error[Len(st_error)] = "DiarizationError"
        /\ events[k].result = "ok" =>
            /\ transcript_result = <<"S", "1", ":", " ">> \o raw_transcript
            /\ st_error = <<>>

\* A chunked run's transcript went to diarize_with_gpt4, whose remote call
\* failed.
C13_Witness ==
    /\ pc = "done"
    /\ \E k \in EventsOf("diarize") : events[k].result = "raised"
    /\ Len(answers) >= 2
    /\ transcript_result = raw_transcript

\* --------------------------------------------------------------------- C14
\* C14: on every path, the run never puts the original input file in
\* temp_files_to_cleanup, never writes to its path and never removes it: the
\* file is on disk until the run has returned, and every removal attempted
\* on it is the caller's, made after the return.
C14_OriginalUntouched ==
    /\ \A k \in DOMAIN temp_files_to_cleanup :
           temp_files_to_cleanup[k] # input_path
    /\ input_path \notin created
    /\ \A k \in DOMAIN events :
           events[k].op \in {"extract", "extract_retry", "write_chunk"} =>
               events[k].file # input_path
    /\ ~Returned =>
        /\ input_path \in fs
        /\ \A k \in EventsOf("remove") : events[k].file # input_path
    /\ input_path \notin fs =>
           \E k \in EventsOf("remove") :
               /\ events[k].file = input_path
               /\ events[k].result = "ok"
               /\ \A j \in 1..(k - 1) :
                      events[j].op = "remove" =>
                          (events[j].file # input_path \/ events[j].result = "locked")

\* A video was extracted and cut into chunks, the run failed and returned,
\* and the caller then removed the original.
C14_Witness ==
    /\ pc = "done"
    /\ input_path = <<"tmp", ".mp4">>
    /\ Len(temp_files_to_cleanup) >= 2
    /\ exc # ""
    /\ input_path \notin fs

\* --------------------------------------------------------------------- C15
\* The chunk loop has ended without an exception.
LoopEnded == duration >= 0 /\ exc = "" /\ pc \notin {"loop", "write", "transcribe"}

\* C15: on the chunked path chunk_duration is max(10, floor((20 / size) *
\* duration)), hence at least 10; num_chunks is ceil(duration /
\* chunk_duration), and a run whose loop ended without an exception has cut
\* and transcribed exactly that many chunks.  For 100 MB and 3000 seconds:
\* chunk_duration 600, 5 chunks of 600 seconds each, the last ending at 3000.
C15_ChunkCount ==
    duration >= 0 =>
        /\ chunk_duration >= 10
        /\ chunk_duration * file_size_mb * DurDen <= 20 * SizeDen * duration
               \/ chunk_duration = 10
        /\ 20 * SizeDen * duration < (chunk_duration + 1) * file_size_mb * DurDen
        /\ num_chunks * chunk_duration * DurDen >= duration
        /\ num_chunks >= 0
        /\ num_chunks > 0 => (num_chunks - 1) * chunk_duration * DurDen < duration
        /\ Len(chunks) <= num_chunks
        /\ LoopEnded =>
            /\ Len(chunks) = num_chunks
            /\ Len(answers) = num_chunks
            /\ Cardinality({k \in EventsOf("transcribe") : events[k].result = "ok"})
                   = num_chunks
        /\ (file_size_mb = 100 * SizeDen /\ duration = 3000 * DurDen) =>
            /\ chunk_duration = 600
            /\ num_chunks = 5
            /\ \A k \in DOMAIN chunks :
                   chunks[k].end_time - chunks[k].start_time = 600 * DurDen
            /\ LoopEnded => chunks[5].end_time = 3000 * DurDen

\* The 100 MB, 3000 second file has been cut and transcribed to its end.
C15_Witness ==
    /\ file_size_mb = 100 * SizeDen
    /\ duration = 3000 * DurDen
    /\ LoopEnded
    /\ Len(answers) = 5

\* --------------------------------------------------------------------- C16
\* C16: no file is sent to the transcription service twice and no chunk file
\* is written twice; once a chunk's write or a transcription call has failed,
\* the run writes no further chunk and makes no further transcription call.
C16_NoRetryNoFurtherChunk ==
    /\ \A p, q \in EventsOf("transcribe") :
           events[p].file = events[q].file => p = q
    /\ \A p, q \in EventsOf("write_chunk") :
           events[p].file = events[q].file => p = q
    /\ \A p \in EventsOf("write_chunk") \cup EventsOf("transcribe") :
           events[p].result # "ok" =>
               \A q \in EventsOf("write_chunk") \cup EventsOf("transcribe") :
                   q <= p

\* The first chunk of a plan of several was transcribed, the second chunk's
\* call failed while a third was still to come, and the run returned.
C16_Witness ==
    /\ Returned
    /\ num_chunks >= 3
    /\ \E p \in EventsOf("transcribe") :
        /\ events[p].result = "raised"
        /\ events[p].file = audio_path \o <<"_part_", 1, ".mp3">>
    /\ Len(answers) = 1

\* --------------------------------------------------------------------- C17
\* C17: for every size above 25 MB and every duration, each chunk the run
\* cuts starts before the end of the audio and ends after it starts; every
\* chunk file written and every chunk file sent for transcription holds such
\* a non-empty range.
C17_ChunksNotEmpty ==
    (duration >= 0 /\ file_size_mb > 25 * SizeDen) =>
        /\ \A k \in DOMAIN chunks :
            /\ chunks[k].start_time < duration
            /\ chunks[k].end_time - chunks[k].start_time >= 1
        /\ \A p \in EventsOf("write_chunk") \cup EventsOf("transcribe") :
            events[p].result = "ok" =>
                \E k \in DOMAIN chunks :
                    /\ chunks[k].file = events[p].file
                    /\ chunks[k].end_time > chunks[k].start_time

\* The last chunk of a finished run is the shortest range the model can
\* tell from an empty one, and it was transcribed.
C17_Witness ==
    /\ LoopEnded
    /\ Len(chunks) >= 2
    /\ chunks[Len(chunks)].end_time - chunks[Len(chunks)].start_time = 1
    /\ answers[Len(answers)].file = chunks[Len(chunks)].file

\* --------------------------------------------------------------------- C18
\* The values given to the bar after its creation with 0 (line 169).
ProgressUpdates == Tail(progress)

\* Some update of the bar is 1.
ProgressReachedOne ==
    \E k \in DOMAIN ProgressUpdates :
        ProgressUpdates[k][1] = ProgressUpdates[k][2]

\* The updates are (i+1)/num_chunks for i = 0, 1, ... in that order, one for
\* each transcription that has returned, and strictly increasing.
ProgressFollowsAnswers ==
    /\ Len(ProgressUpdates) = Len(answers)
    /\ Len(ProgressUpdates) <= num_chunks
    /\ \A k \in DOMAIN ProgressUpdates :
        /\ ProgressUpdates[k] = <<k, num_chunks>>
        /\ answers[k].file = audio_path \o <<"_part_", k - 1, ".mp3">>
    /\ \A k \in 1..(Len(ProgressUpdates) - 1) :
           ProgressUpdates[k][1] * ProgressUpdates[k + 1][2]
               < ProgressUpdates[k + 1][1] * ProgressUpdates[k][2]

\* C18 (as claimed): in a chunked run the progress values are exactly
\* (i+1)/num_chunks for i = 0..num_chunks-1 in order, each given after chunk
\* i's transcription returned, strictly increasing, and the bar reaches 1 if
\* and only if every chunk was transcribed.
C18_ReachesOneIffAllTranscribed ==
    duration >= 0 =>
        /\ ProgressFollowsAnswers
        /\ ProgressReachedOne <=> Len(answers) = num_chunks

\* C18 (amended): in a chunked run the bar is created with 0; the values given
\* to it afterwards are exactly (i+1)/num_chunks for i = 0, 1, ... in order,
\* one after each chunk transcription that returned, strictly increasing; the
\* bar reaches 1 if and only if the plan has at least one chunk and every
\* chunk was transcribed.  Outside the chunked path the bar is never created.
C18_ReachesOneIffAllOfSome ==
    /\ duration < 0 => progress = <<>>
    /\ duration >= 0 =>
        /\ progress[1] = <<0, 1>>
        /\ ProgressFollowsAnswers
        /\ ProgressReachedOne <=> (num_chunks >= 1 /\ Len(answers) = num_chunks)

\* A run of three chunks has returned with the bar at 1.
C18_Witness ==
    /\ Returned
    /\ num_chunks = 3
    /\ progress = <<(<<0, 1>>), (<<1, 3>>), (<<2, 3>>), (<<3, 3>>)>>

\* --------------------------------------------------------------------- C19
\* C19 (as claimed): at every point of a run, every file the run has put on
\* disk (the extracted audio, a chunk, a partially written one included) is
\* listed in temp_files_to_cleanup.
C19_RegisteredBeforeWritten ==
    \A f \in created :
        f \in fs => \E k \in DOMAIN temp_files_to_cleanup :
                        temp_files_to_cleanup[k] = f

====
